---- MODULE Spec2Model ----
(***************************************************************************)
(* A model of ws.py, the case-dispatching web server: one GET request at a *)
(* time is decoded, joined onto the document root, classified by the       *)
(* ordered case list and answered through send_content.  The filesystem,   *)
(* the CGI child process and the client connection are the environment.    *)
(* Paths, messages and bodies are strings, handled character by character  *)
(* the way the Python string methods handle them.                          *)
(***************************************************************************)
EXTENDS Integers, Sequences, FiniteSets, TLC

VARIABLES
    pc,         \* position of the handler: idle, test, act, read, list, entry, cgi, send, body, done
    raw,        \* the request path as received from the transport
    path,       \* self.path after unquote
    full_path,  \* self.full_path
    caseIdx,    \* index into cases of the case being tested / selected
    tested,     \* history: <<case name, test result>> for every test evaluated
    acted,      \* history: names of the cases whose act was invoked
    fs,         \* the filesystem: canonical absolute path -> node
    fsChanged,  \* the filesystem was mutated since this request started
    sink,       \* the client connection: "up" or "down"
    sinkFailed, \* a write to the connection failed during this request
    sent,       \* history: one record per send_content invocation
    ctx,        \* the try/except frame the running send_content was called from
    failure,    \* the first failure raised for this request: [kind, cause]
    probed,     \* history: the path strings handed to filesystem / process calls
    entries,    \* list_dir: sorted entries still to render
    items,      \* list_dir: listing_items rendered so far
    child,      \* the CGI child process: none, running, exited, killed
    elapsed,    \* time units the running CGI child has used (the timer stops when it is reaped)
    cgiOut,     \* bytes the CGI child has written to its stdout so far
    returncode, \* result.returncode of the CGI child (-1: it has not exited)
    crashed,    \* an exception left do_GET unhandled
    size,       \* list_dir / format_size: the size being formatted, as base-1024 digits
    size_str,   \* list_dir: the text format_size returned for it
    prev        \* history: the response to the previous request, when it was a file's
                \* bytes, asked for by the same path as this one, and ran undisturbed

vars == <<pc, raw, path, full_path, caseIdx, tested, acted, fs, fsChanged, sink,
          sinkFailed, sent, ctx, failure, probed, entries, items, child, elapsed,
          cgiOut, returncode, crashed, size, size_str, prev>>

(***************************************************************************)
(* Bounds of the model.                                                    *)
(***************************************************************************)
\* the CGI child writes at most this many chunks to stdout
MaxOut == 1

\* the sizes format_size is checked on have at most this many base-1024 digits
MaxDigits == 5

(***************************************************************************)
(* Python string methods.                                                  *)
(***************************************************************************)
Char(s, i) == SubSeq(s, i, i)

StartsWith(s, p) == Len(s) >= Len(p) /\ SubSeq(s, 1, Len(p)) = p

EndsWith(s, p) == Len(s) >= Len(p) /\ SubSeq(s, Len(s) - Len(p) + 1, Len(s)) = p

Contains(s, sub) == \E i \in 1..(Len(s) - Len(sub) + 1) : SubSeq(s, i, i + Len(sub) - 1) = sub

RECURSIVE LStrip(_, _)
LStrip(s, c) == IF Len(s) > 0 /\ Char(s, 1) = c THEN LStrip(SubSeq(s, 2, Len(s)), c) ELSE s

RECURSIVE RStrip(_, _)
RStrip(s, c) == IF Len(s) > 0 /\ Char(s, Len(s)) = c THEN RStrip(SubSeq(s, 1, Len(s) - 1), c) ELSE s

\* s.split(c)
RECURSIVE SplitFrom(_, _, _)
SplitFrom(s, c, cur) ==
    IF s = "" THEN <<cur>>
    ELSE IF Char(s, 1) = c THEN <<cur>> \o SplitFrom(SubSeq(s, 2, Len(s)), c, "")
    ELSE SplitFrom(SubSeq(s, 2, Len(s)), c, cur \o Char(s, 1))

Split(s, c) == SplitFrom(s, c, "")

\* the printable ASCII characters, 0x20 .. 0x7e, in code order (the grave
\* accent 0x60, which a TLA+ string cannot hold, stands as "?")
Ascii == " !\"#$%&'(" \o ")*+,-./0123456789:;<=>?@ABCDEFGHIJKLMNOPQRSTUVWXYZ[\\]^_?abcdefghijklmnopqrstuvwxyz{|}~"

\* ord(c) of a printable ASCII character (0 for any other)
Ord(c) == IF \E i \in 1..Len(Ascii) : Char(Ascii, i) = c
          THEN 31 + (CHOOSE i \in 1..Len(Ascii) : Char(Ascii, i) = c)
          ELSE 0

\* chr(n); a code outside printable ASCII is shown as "?"
Chr(n) == IF n >= 32 /\ n <= 126 THEN Char(Ascii, n - 31) ELSE "?"

HexLower == "0123456789abcdef"
HexUpper == "0123456789ABCDEF"

IsHex(c) == \E i \in 1..16 : Char(HexLower, i) = c \/ Char(HexUpper, i) = c

HexVal(c) == (CHOOSE i \in 1..16 : Char(HexLower, i) = c \/ Char(HexUpper, i) = c) - 1

\* Text and bytes.  A str holds characters and a bytes object holds bytes;
\* both are written as strings here, an ASCII character and its byte alike.
\* Of the characters beyond ASCII the model has U+00E9, written as the form
\* feed, and the two bytes UTF-8 encodes it in (0xC3 0xA9) are each written
\* as the tab.
Eacute == "\f"
HighByte == "\t"

\* text.encode('utf-8')
RECURSIVE Utf8Encode(_)
Utf8Encode(text) ==
    IF \A i \in 1..Len(text) : Char(text, i) # Eacute THEN text
    ELSE LET i == CHOOSE k \in 1..Len(text) :
                      Char(text, k) = Eacute /\ \A j \in 1..(k - 1) : Char(text, j) # Eacute
         IN  SubSeq(text, 1, i - 1) \o HighByte \o HighByte
             \o Utf8Encode(SubSeq(text, i + 1, Len(text)))

\* the byte a %XX escape at the head of s stands for (-1 if there is none)
EscapedByte(s) ==
    IF Len(s) >= 3 /\ Char(s, 1) = "%" /\ IsHex(Char(s, 2)) /\ IsHex(Char(s, 3))
    THEN 16 * HexVal(Char(s, 2)) + HexVal(Char(s, 3))
    ELSE -1

\* urllib.parse.unquote: every %XX with two hex digits becomes the byte of
\* that code, in one pass, and the bytes are decoded as UTF-8 (0xC3 0xA9 is
\* U+00E9); anything else is kept
RECURSIVE unquote(_)
unquote(s) ==
    IF s = "" THEN ""
    ELSE IF EscapedByte(s) = 195 /\ EscapedByte(SubSeq(s, 4, Len(s))) = 169
         THEN Eacute \o unquote(SubSeq(s, 7, Len(s)))
    ELSE IF EscapedByte(s) >= 0
         THEN Chr(EscapedByte(s)) \o unquote(SubSeq(s, 4, Len(s)))
         ELSE Char(s, 1) \o unquote(SubSeq(s, 2, Len(s)))

\* os.path.join(a, b) on POSIX
join(a, b) ==
    IF StartsWith(b, "/") THEN b
    ELSE IF a = "" \/ EndsWith(a, "/") THEN a \o b
    ELSE a \o "/" \o b

\* os.path.dirname(p): everything before the last "/", without trailing
\* slashes unless it is all slashes
RECURSIVE LastSlash(_, _)
LastSlash(p, i) == IF i = 0 THEN 0 ELSE IF Char(p, i) = "/" THEN i ELSE LastSlash(p, i - 1)

dirname(p) ==
    LET head == SubSeq(p, 1, LastSlash(p, Len(p)))
    IN  IF head # "" /\ RStrip(head, "/") # "" THEN RStrip(head, "/") ELSE head

basename(p) == SubSeq(p, LastSlash(p, Len(p)) + 1, Len(p))

(***************************************************************************)
(* The filesystem the server runs on.  A node is named by its canonical    *)
(* absolute path; the document root is the working directory of the        *)
(* process (os.getcwd()).  The tree has no symbolic links and its names    *)
(* are case-sensitive.                                                     *)
(***************************************************************************)
getcwd == "/srv/www"

Nodes == { "/", "/etc", "/etc/passwd", "/srv", "/srv/www",
           "/srv/www/index.html", "/srv/www/a.txt", "/srv/www/s.py",
           "/srv/www/x.txt", "/srv/www/fifo",
           "/srv/www/sub", "/srv/www/sub/index.html",
           "/srv/www/d", "/srv/www/d/.h", "/srv/www/d/Z", "/srv/www/d/b.css",
           "/srv/www/d/e",
           "/srv/www/lib.js", "/srv/www/lib.js/index.html" }

\* what each node is when it is there: a directory, a regular file, or
\* another kind of object (a named pipe)
Kind0(n) ==
    IF n \in { "/", "/etc", "/srv", "/srv/www", "/srv/www/sub", "/srv/www/d", "/srv/www/d/e",
               "/srv/www/lib.js" }
    THEN "dir"
    ELSE IF n = "/srv/www/fifo" THEN "other" ELSE "file"

\* the bytes of each regular file
FileData(n) ==
    CASE n = "/etc/passwd"             -> "root:x:0:0"
      [] n = "/srv/www/index.html"     -> "<h1>home</h1>"
      [] n = "/srv/www/a.txt"          -> "hello"
      [] n = "/srv/www/s.py"           -> "print(1)"
      [] n = "/srv/www/x.txt"          -> "secret"
      [] n = "/srv/www/sub/index.html" -> "<p>sub</p>"
      [] n = "/srv/www/d/.h"           -> "h"
      [] n = "/srv/www/d/Z"            -> "zz"
      [] n = "/srv/www/d/b.css"        -> "b{}"
      [] n = "/srv/www/lib.js/index.html" -> "<p>lib</p>"
      [] OTHER                         -> ""

\* files the server process has no permission to open
Unreadable == { "/srv/www/x.txt" }

\* nodes other processes remove and put back while the server runs
Mutable == { "/srv/www/index.html", "/srv/www/a.txt", "/srv/www/s.py", "/srv/www/d",
             "/srv/www/d/b.css" }

Tree0 == [n \in Nodes |-> Kind0(n)]

\* the result of a lookup that finds nothing
NoEnt == ""

ChildOf(n, name) == IF n = "/" THEN "/" \o name ELSE n \o "/" \o name

\* path resolution as the kernel does it: every component but the last must
\* be a directory, "." and "" stay, ".." goes to the parent ("/" is its own)
RECURSIVE Walk(_, _, _)
Walk(f, cur, segs) ==
    IF segs = <<>> THEN cur
    ELSE IF f[cur] # "dir" THEN NoEnt
    ELSE LET seg == Head(segs)
         IN  IF seg = "" \/ seg = "." THEN Walk(f, cur, Tail(segs))
             ELSE IF seg = ".." THEN Walk(f, dirname(cur), Tail(segs))
             ELSE IF ChildOf(cur, seg) \in Nodes /\ f[ChildOf(cur, seg)] # "absent"
                  THEN Walk(f, ChildOf(cur, seg), Tail(segs))
                  ELSE NoEnt

Resolve(f, p) ==
    IF p = "" THEN NoEnt
    ELSE IF StartsWith(p, "/") THEN Walk(f, "/", Split(p, "/"))
    ELSE Walk(f, getcwd, Split(p, "/"))

exists(f, p) == Resolve(f, p) # NoEnt

isfile(f, p) == Resolve(f, p) # NoEnt /\ f[Resolve(f, p)] = "file"

isdir(f, p) == Resolve(f, p) # NoEnt /\ f[Resolve(f, p)] = "dir"

\* str(e) of the OSError a failed filesystem call raises
OSErrorStr(errno, strerror, filename) ==
    "[Errno " \o ToString(errno) \o "] " \o strerror \o ": '" \o filename \o "'"

\* open(p, 'rb').read(): the bytes, or the error raised
ReadFile(f, p) ==
    LET n == Resolve(f, p)
    IN  IF n = NoEnt THEN [ok |-> FALSE, data |-> "", err |-> OSErrorStr(2, "No such file or directory", p)]
        ELSE IF f[n] = "dir" THEN [ok |-> FALSE, data |-> "", err |-> OSErrorStr(21, "Is a directory", p)]
        ELSE IF n \in Unreadable THEN [ok |-> FALSE, data |-> "", err |-> OSErrorStr(13, "Permission denied", p)]
        ELSE [ok |-> TRUE, data |-> FileData(n), err |-> ""]

\* getsize answering 0 for what is not there
GetSize_MissingIsZero(f, p) ==
    LET n == Resolve(f, p)
    IN  IF n = NoEnt THEN [ok |-> TRUE, size |-> 0, err |-> ""]
        ELSE IF f[n] = "dir" THEN [ok |-> TRUE, size |-> 4096, err |-> ""]
        ELSE [ok |-> TRUE, size |-> Len(FileData(n)), err |-> ""]

\* os.path.getsize(p)
GetSize(f, p) ==
    LET n == Resolve(f, p)
    IN  IF n = NoEnt THEN [ok |-> FALSE, size |-> 0, err |-> OSErrorStr(2, "No such file or directory", p)]
        ELSE IF f[n] = "dir" THEN [ok |-> TRUE, size |-> 4096, err |-> ""]
        ELSE [ok |-> TRUE, size |-> Len(FileData(n)), err |-> ""]

\* the names os.listdir(p) returns (in no particular order), or the error
ListNames(f, p) ==
    LET n == Resolve(f, p)
    IN  IF n = NoEnt THEN [ok |-> FALSE, names |-> {}, err |-> OSErrorStr(2, "No such file or directory", p)]
        ELSE IF f[n] # "dir" THEN [ok |-> FALSE, names |-> {}, err |-> OSErrorStr(20, "Not a directory", p)]
        ELSE [ok |-> TRUE,
              names |-> { basename(c) : c \in { m \in Nodes : m # "/" /\ dirname(m) = n /\ f[m] # "absent" } },
              err |-> ""]

\* the location a path string denotes, "." and ".." resolved (no links)
RECURSIVE NormSegs(_, _)
NormSegs(segs, acc) ==
    IF segs = <<>> THEN acc
    ELSE LET seg == Head(segs)
         IN  IF seg = "" \/ seg = "." THEN NormSegs(Tail(segs), acc)
             ELSE IF seg = ".." THEN NormSegs(Tail(segs), IF acc = <<>> THEN acc ELSE SubSeq(acc, 1, Len(acc) - 1))
             ELSE NormSegs(Tail(segs), Append(acc, seg))

RECURSIVE JoinSegs(_)
JoinSegs(segs) == IF segs = <<>> THEN "" ELSE "/" \o Head(segs) \o JoinSegs(Tail(segs))

Location(p) ==
    LET segs == NormSegs(Split(p, "/"), <<>>)
    IN  IF segs = <<>> THEN "/" ELSE JoinSegs(segs)

\* the location is the document root or beneath it
InRoot(loc) == loc = getcwd \/ StartsWith(loc, getcwd \o "/")


(***************************************************************************)
(* The case handlers and the request handler's pure parts.                 *)
(***************************************************************************)
\* no previous response to compare with
NoPrev == [status |-> 0, ctype |-> "", body |-> "", via |-> "none"]

\* cases after a dispatch took the static-file case out of the shared list
cases_ChangedByDispatch ==
    IF prev = NoPrev
    THEN << "CaseNoFile", "CaseCgiFile", "CaseExistingFile",
            "CaseDirectoryIndexFile", "CaseDirectoryNoIndex", "CaseAlwaysFail" >>
    ELSE << "CaseNoFile", "CaseCgiFile",
            "CaseDirectoryIndexFile", "CaseDirectoryNoIndex", "CaseAlwaysFail" >>

\* cases with the static-file case ahead of the script case
cases_FileBeforeCgi == << "CaseNoFile", "CaseExistingFile", "CaseCgiFile",
                          "CaseDirectoryIndexFile", "CaseDirectoryNoIndex", "CaseAlwaysFail" >>

\* cases with the fallback ahead of the directory cases
cases_FallbackEarly == << "CaseNoFile", "CaseCgiFile", "CaseExistingFile",
                          "CaseAlwaysFail", "CaseDirectoryIndexFile", "CaseDirectoryNoIndex" >>

\* RequestHandler.cases, in order
cases == << "CaseNoFile", "CaseCgiFile", "CaseExistingFile",
            "CaseDirectoryIndexFile", "CaseDirectoryNoIndex", "CaseAlwaysFail" >>

\* index_path looking for another index name
index_path_htm(fp) == join(fp, "index.htm")

\* BaseCase.index_path
index_path(fp) == join(fp, "index.html")

\* the test method of each case
CaseTest(name, f, fp) ==
    CASE name = "CaseNoFile"             -> ~exists(f, fp)
      [] name = "CaseCgiFile"            -> isfile(f, fp) /\ EndsWith(fp, ".py")
      [] name = "CaseExistingFile"       -> isfile(f, fp)
      [] name = "CaseDirectoryIndexFile" -> isdir(f, fp) /\ isfile(f, index_path(fp))
      [] name = "CaseDirectoryNoIndex"   -> isdir(f, fp) /\ ~isfile(f, index_path(fp))
      [] OTHER                           -> TRUE

\* the path strings a case's test hands to the filesystem
CaseProbes(name, f, fp) ==
    CASE name \in { "CaseNoFile", "CaseCgiFile", "CaseExistingFile" } -> { fp }
      [] name \in { "CaseDirectoryIndexFile", "CaseDirectoryNoIndex" } ->
            IF isdir(f, fp) THEN { fp, index_path(fp) } ELSE { fp }
      [] OTHER -> {}

\* the file handle_file is asked to read by the selected case
ReadTarget(name, fp) == IF name = "CaseDirectoryIndexFile" THEN index_path(fp) ELSE fp

\* RequestHandler.error_page.format(path=.., msg=..) (the white space between
\* the tags is left out)
error_page(p, msg) ==
    "<html><head><title>Error</title></head><body><h1>Error accessing " \o p
    \o "</h1><p>" \o msg \o "</p><hr><p><em>Simple Python Web Server</em></p></body></html>"

\* RequestHandler.listing_page.format(path=.., entries=..)
listing_page(p, entriesHtml) ==
    "<html><head><title>Directory: " \o p \o "</title></head><body><h1>Directory: " \o p
    \o "</h1><ul>" \o entriesHtml \o "</ul><hr><p><em>Simple Python Web Server</em></p></body></html>"

\* the content type send_content derives from self.path
ContentType(p) ==
    IF EndsWith(p, ".html") \/ EndsWith(p, ".htm") THEN "text/html"
    ELSE IF EndsWith(p, ".css") THEN "text/css"
    ELSE IF EndsWith(p, ".js") THEN "application/javascript"
    ELSE IF EndsWith(p, ".json") THEN "application/json"
    ELSE IF EndsWith(p, ".jpg") \/ EndsWith(p, ".jpeg") THEN "image/jpeg"
    ELSE IF EndsWith(p, ".png") THEN "image/png"
    ELSE IF EndsWith(p, ".gif") THEN "image/gif"
    ELSE "text/html"

\* A size is a Python int, which has no upper limit; it is written as the
\* sequence of its base-1024 digits, the most significant first.
RECURSIVE Digits(_)
Digits(n) == IF n < 1024 THEN << n >> ELSE Append(Digits(n \div 1024), n % 1024)

\* the running value of format_size after k divisions by 1024 is whole +
\* frac, whole the digits but the last k and frac the last k digits as a
\* fraction; a float holds it exactly below 2^53
RECURSIVE Value(_)
Value(ds) == IF ds = <<>> THEN 0 ELSE 1024 * Value(SubSeq(ds, 1, Len(ds) - 1)) + ds[Len(ds)]

\* ten times a fraction: the carry into the units and the fraction left
RECURSIVE Times10(_)
Times10(frac) ==
    IF frac = <<>> THEN [carry |-> 0, digits |-> <<>>]
    ELSE LET rest == Times10(Tail(frac))
             v == 10 * Head(frac) + rest.carry
         IN  [carry |-> v \div 1024, digits |-> << v % 1024 >> \o rest.digits]

\* f"{size:.1f}": one decimal place, the exact value rounded to the nearest
\* tenth, a tie to the even digit
Fixed1(whole, frac) ==
    LET m == Times10(frac)
        r == m.digits
        restZero == \A i \in 2..Len(r) : r[i] = 0
        above == r # <<>> /\ (r[1] > 512 \/ (r[1] = 512 /\ ~restZero))
        tie == r # <<>> /\ r[1] = 512 /\ restZero
        t == 10 * Value(whole) + m.carry
        u == IF above \/ (tie /\ t % 2 = 1) THEN t + 1 ELSE t
    IN  ToString(u \div 10) \o "." \o ToString(u % 10)

\* size < 1024 with the boundary itself included
Below1024_Inclusive(whole) == Len(whole) <= 1 \/ whole = << 1, 0 >>

\* size < 1024
Below1024(whole) == Len(whole) <= 1

\* RequestHandler.format_size: the loop over the units, size /= 1024 moving
\* the last digit of the whole part to the head of the fraction
RECURSIVE FormatLoop(_, _, _)
FormatLoop(whole, frac, units) ==
    IF units = <<>> THEN Fixed1(whole, frac) \o " TB"
    ELSE IF Below1024(whole) THEN Fixed1(whole, frac) \o " " \o Head(units)
    ELSE FormatLoop(SubSeq(whole, 1, Len(whole) - 1), << whole[Len(whole)] >> \o frac, Tail(units))

format_size(sz) == FormatLoop(sz, <<>>, << "B", "KB", "MB", "GB" >>)

\* str < str in Python: by code point, a proper prefix first
RECURSIVE StrLess(_, _)
StrLess(a, b) ==
    IF b = "" THEN FALSE
    ELSE IF a = "" THEN TRUE
    ELSE IF Char(a, 1) = Char(b, 1) THEN StrLess(SubSeq(a, 2, Len(a)), SubSeq(b, 2, Len(b)))
    ELSE Ord(Char(a, 1)) < Ord(Char(b, 1))

\* str.lower() of the characters of a name
RECURSIVE Lower(_)
Lower(s) ==
    IF s = "" THEN ""
    ELSE (IF Ord(Char(s, 1)) >= 65 /\ Ord(Char(s, 1)) <= 90 THEN Chr(Ord(Char(s, 1)) + 32) ELSE Char(s, 1))
         \o Lower(SubSeq(s, 2, Len(s)))

\* the entries sorted without regard to case (entries.sort(key=str.lower))
RECURSIVE Sorted_IgnoreCase(_)
Sorted_IgnoreCase(S) ==
    IF S = {} THEN <<>>
    ELSE LET m == CHOOSE x \in S : \A y \in S \ {x} : StrLess(Lower(x), Lower(y))
         IN  <<m>> \o Sorted_IgnoreCase(S \ {m})

\* entries.sort()
RECURSIVE Sorted(_)
Sorted(S) ==
    IF S = {} THEN <<>>
    ELSE LET m == CHOOSE x \in S : \A y \in S \ {x} : StrLess(x, y)
         IN  <<m>> \o Sorted(S \ {m})

\* list_dir: the parent directory link
ParentItems(p) ==
    IF p # "/"
    THEN LET parent_path == dirname(RStrip(p, "/"))
         IN  << "<li><a href=\"" \o (IF parent_path = "" THEN "/" ELSE parent_path) \o "\">../</a></li>" >>
    ELSE <<>>

\* list_dir: the list item of a directory entry, and of a file entry
DirItem(p, entry) ==
    "<li><a href=\"" \o RStrip(p, "/") \o "/" \o entry \o "/\">" \o entry \o "/</a></li>"

FileItem(p, entry, sizeStr) ==
    "<li><a href=\"" \o RStrip(p, "/") \o "/" \o entry \o "\">" \o entry \o "</a> ("
    \o sizeStr \o ")</li>"

\* '\n        '.join(listing_items)
RECURSIVE JoinItems(_)
JoinItems(its) ==
    IF its = <<>> THEN ""
    ELSE IF Len(its) = 1 THEN its[1]
    ELSE its[1] \o "\n        " \o JoinItems(Tail(its))

\* subprocess.run(.., text=True): the captured bytes as text, a "\r\n" or
\* "\r" read as "\n"
RECURSIVE TextDecode(_)
TextDecode(b) ==
    IF b = "" THEN ""
    ELSE IF StartsWith(b, "\r\n") THEN "\n" \o TextDecode(SubSeq(b, 3, Len(b)))
    ELSE IF StartsWith(b, "\r") THEN "\n" \o TextDecode(SubSeq(b, 2, Len(b)))
    ELSE Char(b, 1) \o TextDecode(SubSeq(b, 2, Len(b)))

\* the deadline of subprocess.run, in time units
Timeout == 30

\* what the CGI child writes to stdout in one chunk, and what it may leave
\* on stderr
OutChunk == "OUT\r\n"
ErrTexts == { "", "Traceback: boom" }

\* str(e) of what a failed write to the client raises, and of what
\* subprocess.run raises when it cannot start the child or decode its output
BrokenPipe == "[Errno 32] Broken pipe"
LaunchError == "[Errno 24] Too many open files"
DecodeError == "'utf-8' codec can't decode byte 0xff in position 0: invalid start byte"


\* the messages the handler raises or reports
AccessDenied == "Access denied"

NotFoundMsg(p) == "'" \o p \o "' not found"

UnknownObjectMsg(p) == "Unknown object '" \o p \o "'"

CannotReadMsg(target, e) == "'" \o target \o "' cannot be read: " \o e

CannotListMsg(p, e) == "'" \o p \o "' cannot be listed: " \o e

\* the script error message with the captured stdout appended
CgiErrorMsg_WithStdout(out, err) == "CGI script error: " \o err \o out

CgiErrorMsg(out, err) == "CGI script error: " \o err

\* the timeout message with the output captured so far appended
CgiTimeoutMsg_WithPartial(out) == "CGI script timed out" \o out

CgiTimeoutMsg(out) == "CGI script timed out"

CannotExecuteMsg(e) == "Cannot execute CGI script: " \o e

\* the body run_cgi sends for a child that exited with code 0:
\* result.stdout.encode('utf-8')
CgiBody(out) == Utf8Encode(TextDecode(out))

\* the file's bytes short of the last one
FileBody_Truncated(data) == SubSeq(data, 1, Len(data) - 1)

\* the body handle_file sends for the bytes it read
FileBody(data) == data

(***************************************************************************)
(* The requests the transport delivers.  http.server reduces a run of      *)
(* slashes at the head of the request path to one before it calls do_GET.  *)
(***************************************************************************)
RawPaths == { "/", "/index.html", "/a.txt", "/s.py", "/x.txt", "/fifo",
              "/sub", "/d", "/d/", "/d/b.css", "/missing.txt", "/missing.css",
              "/../../etc/passwd", "/%2e%2e/%2E%2e/etc/passwd", "/sub/..",
              "/caf%C3%A9", "/lib.js" }

NoFailure == [kind |-> "none", cause |-> ""]

\* the digits of size 0
NoSize == << 0 >>

Init ==
    /\ pc = "idle"
    /\ raw = "" /\ path = "" /\ full_path = ""
    /\ caseIdx = 0 /\ tested = <<>> /\ acted = <<>>
    /\ fs = Tree0 /\ fsChanged = FALSE
    /\ sink = "up" /\ sinkFailed = FALSE
    /\ sent = <<>> /\ ctx = "none"
    /\ failure = NoFailure
    /\ probed = {}
    /\ entries = <<>> /\ items = <<>>
    /\ child = "none" /\ elapsed = 0 /\ cgiOut = "" /\ returncode = -1
    /\ crashed = FALSE
    /\ size = NoSize /\ size_str = ""
    /\ prev = NoPrev

reqVars == <<raw, path, full_path>>
listVars == <<entries, items>>
cgiVars == <<child, elapsed, cgiOut, returncode>>
envVars == <<fs, fsChanged, sink>>

(***************************************************************************)
(* send_content and handle_error.  A call of send_content is recorded when *)
(* it is made; the headers and the body then go to the connection in two   *)
(* writes (end_headers, wfile.write).                                      *)
(***************************************************************************)
\* a bytes object holding b
Bytes(b) == [isstr |-> FALSE, v |-> b]

\* the page handed to send_content as the str it is
encode_Skipped(text) == [isstr |-> TRUE, v |-> text]

\* page.encode('utf-8'), as handle_error and list_dir do before send_content
encode(text) == Bytes(Utf8Encode(text))

\* send_content(content, status) called from frame c, with self.path = p:
\* the Content-Length header is len(content) of what was passed, and what
\* goes to wfile.write is the content, encoded if it is a str
CallSend(base, p, content, status, c, via) ==
    /\ sent' = Append(base, [status |-> status, ctype |-> ContentType(p),
                             clen |-> Len(content.v),
                             body |-> IF content.isstr THEN Utf8Encode(content.v) ELSE content.v,
                             via |-> via, hdr |-> FALSE, bdy |-> FALSE])
    /\ ctx' = c
    /\ pc' = "send"

\* handle_error(msg) called from frame c
handle_error(base, p, msg, c) == CallSend(base, p, encode(error_page(p, msg)), 404, c, "error")

\* the first failure of the request is remembered
Fail(kind, cause) ==
    failure' = IF failure.kind = "none" THEN [kind |-> kind, cause |-> cause] ELSE failure

(***************************************************************************)
(* do_GET.                                                                 *)
(***************************************************************************)
\* a request arrives on a new connection: unquote, join, sandbox check
DoGet(r) ==
    /\ pc \in {"idle", "done"}
    /\ LET p == unquote(r)
           fp == join(getcwd, LStrip(p, "/"))
       IN  /\ raw' = r
           /\ path' = p
           /\ full_path' = fp
           /\ IF ~StartsWith(fp, getcwd)
              THEN /\ failure' = [kind |-> "SandboxViolation", cause |-> AccessDenied]
                   /\ handle_error(<<>>, p, AccessDenied, "top_exc")
                   /\ caseIdx' = 0
              ELSE /\ failure' = NoFailure
                   /\ sent' = <<>>
                   /\ ctx' = "none"
                   /\ pc' = "test"
                   /\ caseIdx' = 1
    /\ tested' = <<>> /\ acted' = <<>>
    /\ fsChanged' = FALSE
    /\ sink' = "up" /\ sinkFailed' = FALSE
    /\ probed' = {}
    /\ entries' = <<>> /\ items' = <<>>
    /\ child' = "none" /\ elapsed' = 0 /\ cgiOut' = "" /\ returncode' = -1
    /\ crashed' = FALSE
    /\ size' = NoSize /\ size_str' = ""
    /\ prev' = IF pc = "done" /\ r = raw /\ ~fsChanged /\ ~sinkFailed /\ Len(sent) = 1
                  /\ sent[1].via = "file"
               THEN [status |-> sent[1].status, ctype |-> sent[1].ctype,
                     body |-> sent[1].body, via |-> sent[1].via]
               ELSE NoPrev
    /\ UNCHANGED fs

\* one turn of "for case in self.cases: if case.test(self)"
TestCase ==
    /\ pc = "test"
    /\ IF caseIdx > Len(cases)
       THEN /\ pc' = "done"
            /\ UNCHANGED <<caseIdx, tested, probed>>
       ELSE LET name == cases[caseIdx]
                res == CaseTest(name, fs, full_path)
            IN  /\ tested' = Append(tested, <<name, res>>)
                /\ probed' = probed \cup CaseProbes(name, fs, full_path)
                /\ IF res
                   THEN pc' = "act" /\ UNCHANGED caseIdx
                   ELSE caseIdx' = caseIdx + 1 /\ UNCHANGED pc
    /\ UNCHANGED <<reqVars, acted, envVars, sinkFailed, sent, ctx, failure, listVars, cgiVars, crashed>>
    /\ UNCHANGED <<size, size_str, prev>>

\* case.act(self) of the selected case, up to its first call of
\* send_content or to the start of the CGI child
Act ==
    /\ pc = "act"
    /\ LET name == cases[caseIdx]
       IN  /\ acted' = Append(acted, name)
           /\ CASE name = "CaseNoFile" ->
                    /\ Fail("NotFound", NotFoundMsg(path))
                    /\ handle_error(sent, path, NotFoundMsg(path), "top_exc")
                    /\ UNCHANGED <<probed, listVars, cgiVars>>
                [] name \in {"CaseExistingFile", "CaseDirectoryIndexFile"} ->
                    LET target == ReadTarget(name, full_path)
                        r == ReadFile(fs, target)
                    IN  /\ probed' = probed \cup {target}
                        /\ IF r.ok
                           THEN /\ CallSend(sent, path, Bytes(FileBody(r.data)), 200, "file_try", "file")
                                /\ UNCHANGED failure
                           ELSE /\ Fail("ReadFailure", r.err)
                                /\ handle_error(sent, path, CannotReadMsg(target, r.err), "file_exc")
                        /\ UNCHANGED <<listVars, cgiVars>>
                [] name = "CaseDirectoryNoIndex" ->
                    LET r == ListNames(fs, full_path)
                    IN  /\ probed' = probed \cup {full_path}
                        /\ IF r.ok
                           THEN /\ entries' = Sorted(r.names)
                                /\ items' = ParentItems(path)
                                /\ pc' = "entry"
                                /\ UNCHANGED <<failure, sent, ctx>>
                           ELSE /\ Fail("ListingFailure", r.err)
                                /\ handle_error(sent, path, CannotListMsg(path, r.err), "list_exc")
                                /\ UNCHANGED listVars
                        /\ UNCHANGED cgiVars
                [] name = "CaseCgiFile" ->
                    /\ probed' = probed \cup {full_path}
                    /\ child' = "running" /\ elapsed' = 0 /\ cgiOut' = ""
                    /\ pc' = "cgi"
                    /\ UNCHANGED returncode
                    /\ UNCHANGED <<failure, sent, ctx, listVars>>
                [] OTHER ->
                    /\ Fail("UnclassifiedRequest", UnknownObjectMsg(path))
                    /\ handle_error(sent, path, UnknownObjectMsg(path), "top_exc")
                    /\ UNCHANGED <<probed, listVars, cgiVars>>
    /\ UNCHANGED <<reqVars, caseIdx, tested, envVars, sinkFailed, crashed>>
    /\ UNCHANGED <<size, size_str, prev>>


\* run_cgi: subprocess.run cannot start the child and raises
ActCgiLaunchFail ==
    /\ pc = "act"
    /\ caseIdx <= Len(cases) /\ cases[caseIdx] = "CaseCgiFile"
    /\ acted' = Append(acted, cases[caseIdx])
    /\ probed' = probed \cup {full_path}
    /\ Fail("ScriptLaunchFailure", LaunchError)
    /\ handle_error(sent, path, CannotExecuteMsg(LaunchError), "cgi_exc")
    /\ UNCHANGED <<reqVars, caseIdx, tested, envVars, sinkFailed, listVars, cgiVars, crashed>>
    /\ UNCHANGED <<size, size_str, prev>>

(***************************************************************************)
(* list_dir, after os.listdir and the sort.                                *)
(***************************************************************************)
\* one turn of "for entry in entries"
ListEntry ==
    /\ pc = "entry"
    /\ entries # <<>>
    /\ LET entry == Head(entries)
           entry_path == join(full_path, entry)
           sz == GetSize(fs, entry_path)
       IN  IF StartsWith(entry, ".")
           THEN /\ entries' = Tail(entries)
                /\ UNCHANGED <<items, probed, failure, sent, ctx, pc, size, size_str>>
           ELSE /\ probed' = probed \cup {entry_path}
                /\ IF isdir(fs, entry_path)
                   THEN /\ items' = Append(items, DirItem(path, entry))
                        /\ entries' = Tail(entries)
                        /\ UNCHANGED <<failure, sent, ctx, pc, size, size_str>>
                   ELSE IF sz.ok
                   THEN /\ size' = Digits(sz.size)
                        /\ size_str' = format_size(Digits(sz.size))
                        /\ items' = Append(items, FileItem(path, entry, format_size(Digits(sz.size))))
                        /\ entries' = Tail(entries)
                        /\ UNCHANGED <<failure, sent, ctx, pc>>
                   ELSE /\ Fail("ListingFailure", sz.err)
                        /\ handle_error(sent, path, CannotListMsg(path, sz.err), "list_exc")
                        /\ UNCHANGED <<listVars, size, size_str>>
    /\ UNCHANGED <<reqVars, caseIdx, tested, acted, envVars, sinkFailed, cgiVars, crashed>>
    /\ UNCHANGED prev

\* the page is formatted and handed to send_content
ListFinish ==
    /\ pc = "entry"
    /\ entries = <<>>
    /\ CallSend(sent, path, encode(listing_page(path, JoinItems(items))), 200, "list_try", "listing")
    /\ UNCHANGED <<reqVars, caseIdx, tested, acted, envVars, sinkFailed, failure, probed,
                   listVars, cgiVars, crashed>>
    /\ UNCHANGED <<size, size_str, prev>>

(***************************************************************************)
(* run_cgi: the child process and the wait for it.                         *)
(***************************************************************************)
\* a time unit passes while the child runs
Tick ==
    /\ pc = "cgi" /\ child = "running"
    /\ elapsed < Timeout
    /\ elapsed' = elapsed + 1
    /\ UNCHANGED <<pc, reqVars, caseIdx, tested, acted, envVars, sinkFailed, sent, ctx,
                   failure, probed, listVars, child, cgiOut, returncode, crashed>>
    /\ UNCHANGED <<size, size_str, prev>>

\* the child writes a chunk to its stdout, which the pipe captures
ScriptWrite ==
    /\ pc = "cgi" /\ child = "running"
    /\ Len(cgiOut) < MaxOut * Len(OutChunk)
    /\ cgiOut' = cgiOut \o OutChunk
    /\ UNCHANGED <<pc, reqVars, caseIdx, tested, acted, envVars, sinkFailed, sent, ctx,
                   failure, probed, listVars, child, elapsed, returncode, crashed>>
    /\ UNCHANGED <<size, size_str, prev>>

\* the child exits before the deadline with the given code and stderr;
\* subprocess.run returns and run_cgi looks at the return code
ScriptExit(code, err) ==
    /\ pc = "cgi" /\ child = "running"
    /\ elapsed < Timeout
    /\ child' = "exited"
    /\ returncode' = code
    /\ IF code = 0
       THEN /\ CallSend(sent, path, Bytes(CgiBody(cgiOut)), 200, "cgi_try", "cgi")
            /\ UNCHANGED failure
       ELSE /\ Fail("ScriptExecutionFailure", err)
            /\ handle_error(sent, path, CgiErrorMsg(cgiOut, err), "cgi_try")
    /\ elapsed' = 0
    /\ UNCHANGED <<reqVars, caseIdx, tested, acted, envVars, sinkFailed, probed, listVars,
                   cgiOut, crashed>>
    /\ UNCHANGED <<size, size_str, prev>>

\* the child exits before the deadline having written bytes that are no
\* text: subprocess.run raises while it decodes them
ScriptExitUndecodable ==
    /\ pc = "cgi" /\ child = "running"
    /\ elapsed < Timeout
    /\ child' = "exited"
    /\ returncode' \in {0, 1}
    /\ Fail("ScriptDecodeFailure", DecodeError)
    /\ handle_error(sent, path, CannotExecuteMsg(DecodeError), "cgi_exc")
    /\ elapsed' = 0
    /\ UNCHANGED <<reqVars, caseIdx, tested, acted, envVars, sinkFailed, probed, listVars,
                   cgiOut, crashed>>
    /\ UNCHANGED <<size, size_str, prev>>

\* the deadline passes: subprocess.run kills the child, waits for it and
\* raises TimeoutExpired
CgiTimeout ==
    /\ pc = "cgi" /\ child = "running"
    /\ elapsed >= Timeout
    /\ child' = "killed"
    /\ Fail("ScriptTimeout", CgiTimeoutMsg(cgiOut))
    /\ handle_error(sent, path, CgiTimeoutMsg(cgiOut), "cgi_exc")
    /\ UNCHANGED <<reqVars, caseIdx, tested, acted, envVars, sinkFailed, probed, listVars,
                   elapsed, cgiOut, returncode, crashed>>
    /\ UNCHANGED <<size, size_str, prev>>

(***************************************************************************)
(* send_content on the connection.                                         *)
(***************************************************************************)
\* end_headers: the status line and the headers are written
SendHeaders ==
    /\ pc = "send" /\ sink = "up"
    /\ sent' = [sent EXCEPT ![Len(sent)].hdr = TRUE]
    /\ pc' = "body"
    /\ UNCHANGED <<reqVars, caseIdx, tested, acted, envVars, sinkFailed, ctx, failure,
                   probed, listVars, cgiVars, crashed>>
    /\ UNCHANGED <<size, size_str, prev>>

\* wfile.write(content): the body is written and send_content returns
SendBody ==
    /\ pc = "body" /\ sink = "up"
    /\ sent' = [sent EXCEPT ![Len(sent)].bdy = TRUE]
    /\ pc' = "done"
    /\ UNCHANGED <<reqVars, caseIdx, tested, acted, envVars, sinkFailed, ctx, failure,
                   probed, listVars, cgiVars, crashed>>
    /\ UNCHANGED <<size, size_str, prev>>

\* a write to a closed connection raises BrokenPipeError (an OSError) out of
\* send_content; the innermost enclosing except clause that matches handles
\* it by calling handle_error, and the one in do_GET's own except clause
\* leaves do_GET
SendFail ==
    /\ pc \in {"send", "body"} /\ sink = "down"
    /\ sinkFailed' = TRUE
    /\ CASE ctx = "file_try" ->
              /\ handle_error(sent, path, CannotReadMsg(ReadTarget(cases[caseIdx], full_path), BrokenPipe), "file_exc")
              /\ UNCHANGED crashed
         [] ctx = "list_try" ->
              /\ handle_error(sent, path, CannotListMsg(path, BrokenPipe), "list_exc")
              /\ UNCHANGED crashed
         [] ctx = "cgi_try" ->
              /\ handle_error(sent, path, CannotExecuteMsg(BrokenPipe), "cgi_exc")
              /\ UNCHANGED crashed
         [] ctx \in {"file_exc", "list_exc", "cgi_exc"} ->
              /\ handle_error(sent, path, BrokenPipe, "top_exc")
              /\ UNCHANGED crashed
         [] OTHER ->
              /\ pc' = "done"
              /\ crashed' = TRUE
              /\ UNCHANGED <<sent, ctx>>
    /\ UNCHANGED <<reqVars, caseIdx, tested, acted, envVars, failure, probed, listVars, cgiVars>>
    /\ UNCHANGED <<size, size_str, prev>>

(***************************************************************************)
(* The environment.                                                        *)
(***************************************************************************)
\* the client closes the connection while the response is on its way
SinkBreak ==
    /\ pc \in {"send", "body"} /\ sink = "up"
    /\ sink' = "down"
    /\ UNCHANGED <<pc, reqVars, caseIdx, tested, acted, fs, fsChanged, sinkFailed, sent, ctx,
                   failure, probed, listVars, cgiVars, crashed>>
    /\ UNCHANGED <<size, size_str, prev>>

\* another process removes a node while the handler is consulting the filesystem
FsRemove(n) ==
    /\ pc \in {"test", "act", "entry"}
    /\ n \in Mutable /\ fs[n] # "absent"
    /\ fs' = [fs EXCEPT ![n] = "absent"]
    /\ fsChanged' = TRUE
    /\ UNCHANGED <<pc, reqVars, caseIdx, tested, acted, sink, sinkFailed, sent, ctx,
                   failure, probed, listVars, cgiVars, crashed>>
    /\ UNCHANGED <<size, size_str, prev>>

\* another process puts a removed node back
FsRestore(n) ==
    /\ pc \in {"test", "act", "entry"}
    /\ n \in Mutable /\ fs[n] = "absent"
    /\ fs' = [fs EXCEPT ![n] = Kind0(n)]
    /\ fsChanged' = TRUE
    /\ UNCHANGED <<pc, reqVars, caseIdx, tested, acted, sink, sinkFailed, sent, ctx,
                   failure, probed, listVars, cgiVars, crashed>>
    /\ UNCHANGED <<size, size_str, prev>>

(***************************************************************************)
(* The specifications.                                                     *)
(***************************************************************************)
Next ==
    \/ \E r \in RawPaths : DoGet(r)
    \/ TestCase
    \/ Act
    \/ ActCgiLaunchFail
    \/ ListEntry
    \/ ListFinish
    \/ Tick
    \/ ScriptWrite
    \/ \E code \in {0, 1}, err \in ErrTexts : ScriptExit(code, err)
    \/ ScriptExitUndecodable
    \/ CgiTimeout
    \/ SendHeaders
    \/ SendBody
    \/ SendFail
    \/ SinkBreak
    \/ \E n \in Mutable : FsRemove(n)
    \/ \E n \in Mutable : FsRestore(n)

Spec == Init /\ [][Next]_vars

\* once run_cgi waits for the child, time keeps passing, the wait ends at
\* the deadline at the latest, and the handler's thread goes on to write
\* (or to fail to write) what it has handed to send_content
FairSpec ==
    /\ Spec
    /\ WF_vars(Tick)
    /\ WF_vars(CgiTimeout)
    /\ WF_vars(SendHeaders)
    /\ WF_vars(SendBody)
    /\ WF_vars(SendFail)

(***************************************************************************)
(* format_size on its own: a size is drawn and format_size is applied to   *)
(* it.                                                                     *)
(***************************************************************************)
\* the base-1024 digits the sizes are made of
SizeDigits == { 0, 1, 2, 500, 512, 1023 }

\* the non-negative integers of at most MaxDigits digits made of them
Sizes ==
    { ds \in UNION { [1..n -> SizeDigits] : n \in 1..MaxDigits } : Len(ds) = 1 \/ ds[1] # 0 }

SizeInit ==
    /\ pc = "idle"
    /\ raw = "" /\ path = "" /\ full_path = ""
    /\ caseIdx = 0 /\ tested = <<>> /\ acted = <<>>
    /\ fs = Tree0 /\ fsChanged = FALSE
    /\ sink = "up" /\ sinkFailed = FALSE
    /\ sent = <<>> /\ ctx = "none"
    /\ failure = NoFailure
    /\ probed = {}
    /\ entries = <<>> /\ items = <<>>
    /\ child = "none" /\ elapsed = 0 /\ cgiOut = "" /\ returncode = -1
    /\ crashed = FALSE
    /\ size \in Sizes /\ size_str = ""
    /\ prev = NoPrev

\* size_str = self.format_size(size)
FormatSize ==
    /\ size_str = ""
    /\ size_str' = format_size(size)
    /\ UNCHANGED <<pc, reqVars, caseIdx, tested, acted, envVars, sinkFailed, sent, ctx,
                   failure, probed, listVars, cgiVars, crashed, size, prev>>

SizeNext == FormatSize

SizeSpec == SizeInit /\ [][SizeNext]_vars

(***************************************************************************)
(* The properties.                                                         *)
(***************************************************************************)
\* the node the request's full_path resolves to now (NoEnt if none)
Target == Resolve(fs, full_path)

\* the request is past the sandbox check
Dispatching == pc \notin {"idle"} /\ caseIdx >= 1

\* C1: every path the handler hands to the filesystem or to the child
\* process denotes the document root or a location beneath it, and a request
\* answered as a sandbox violation has consulted the filesystem for nothing
C1_StaysInsideRoot ==
    /\ \A p \in probed : InRoot(Location(p))
    /\ failure.kind = "SandboxViolation" => probed = {}

\* C2: when a request is over, send_content has been called exactly once
C2_ExactlyOneSend == pc = "done" => Len(sent) = 1

\* C3: a request that failed (a failure was raised, or its path denotes a
\* location outside the document root) ends with responses of status 404
\* only, the first of which names the request path and the failure's message
C3_FailuresEndIn404 ==
    (pc = "done" /\ (failure.kind # "none" \/ ~InRoot(Location(full_path)))) =>
        /\ sent # <<>>
        /\ \A i \in 1..Len(sent) : sent[i].status = 404
        /\ Contains(sent[1].body, Utf8Encode(path))
        /\ Contains(sent[1].body, Utf8Encode(failure.cause))

\* C3, for the failures the handler raises: they end with responses of status
\* 404 only, the first naming the request path and the failure's message
C3_RaisedFailuresEndIn404 ==
    (pc \in {"send", "body", "done"} /\ failure.kind # "none") =>
        /\ sent # <<>>
        /\ \A i \in 1..Len(sent) : sent[i].status = 404 /\ sent[i].via = "error"
        /\ Contains(sent[1].body, Utf8Encode("<h1>Error accessing " \o path \o "</h1>"))
        /\ Contains(sent[1].body, Utf8Encode(failure.cause))

\* C4: while the filesystem does not change during the request, a request
\* whose path resolves to a regular file named *.py is handed to run_cgi and
\* no response carries the file's bytes or comes from handle_file
C4_ScriptNeverServedStatic ==
    (Dispatching /\ ~fsChanged /\ Target # NoEnt /\ fs[Target] = "file" /\ EndsWith(Target, ".py")) =>
        /\ \A i \in 1..Len(acted) : acted[i] # "CaseExistingFile"
        /\ \A i \in 1..Len(sent) : sent[i].via # "file" /\ sent[i].body # FileData(Target)
        /\ pc \notin {"test", "act"} => acted = << "CaseCgiFile" >>

C4_Witness ==
    /\ pc = "done" /\ ~fsChanged /\ Target = "/srv/www/s.py" /\ fs[Target] = "file"
    /\ acted = << "CaseCgiFile" >>
    /\ Len(sent) = 1 /\ sent[1].status = 200 /\ sent[1].via = "cgi" /\ sent[1].bdy

\* the order dispatch is to test the cases in
DispatchOrder == << "CaseNoFile", "CaseCgiFile", "CaseExistingFile",
                    "CaseDirectoryIndexFile", "CaseDirectoryNoIndex", "CaseAlwaysFail" >>

\* C5: the tests were evaluated in the fixed order, each but the last one
\* returned false, at most one case acted, it is the last tested, its test
\* returned true, and once dispatch is over exactly one case has acted
C5_FirstMatchActsAlone ==
    /\ Len(tested) <= Len(DispatchOrder)
    /\ \A i \in 1..Len(tested) : tested[i][1] = DispatchOrder[i]
    /\ \A i \in 1..(Len(tested) - 1) : tested[i][2] = FALSE
    /\ Len(acted) <= 1
    /\ acted # <<>> => tested # <<>> /\ tested[Len(tested)] = << acted[1], TRUE >>
    /\ (Dispatching /\ pc \notin {"test", "act"}) => Len(acted) = 1

C5_Witness ==
    /\ pc = "done"
    /\ acted = << "CaseDirectoryNoIndex" >>
    /\ Len(tested) = 5
    /\ tested[4] = << "CaseDirectoryIndexFile", FALSE >>

\* C6: the fallback case never acts
C6_FallbackNeverActs == \A i \in 1..Len(acted) : acted[i] # "CaseAlwaysFail"

\* C6, second half: when the fallback case acts, the request is answered by
\* an error page naming the unknown object
C6_FallbackIsReported ==
    (pc \in {"send", "body", "done"} /\ acted = << "CaseAlwaysFail" >>) =>
        /\ sent # <<>>
        /\ sent[1].status = 404
        /\ Contains(sent[1].body, Utf8Encode(UnknownObjectMsg(path)))

C8_TimeoutState ==
    /\ child = "running" => elapsed <= Timeout
    /\ failure.kind = "ScriptTimeout" =>
          /\ child = "killed" /\ elapsed >= Timeout
          /\ sent # <<>>
          /\ Contains(sent[1].body, "CGI script timed out")
          /\ \A i \in 1..Len(sent) :
                /\ sent[i].status = 404
                /\ cgiOut # "" => ~Contains(sent[i].body, cgiOut) /\ ~Contains(sent[i].body, CgiBody(cgiOut))

\* C8: the timeout safety above always holds, and a request that runs a
\* script always comes to its end with send_content called
C8_TimeoutAnswered ==
    /\ []C8_TimeoutState
    /\ (pc = "cgi") ~> (pc = "done" /\ sent # <<>>)

C8_Witness ==
    /\ pc = "done" /\ failure.kind = "ScriptTimeout" /\ child = "killed"
    /\ cgiOut # ""
    /\ Len(sent) = 1 /\ sent[1].bdy

\* C9: a request that is over, during which neither the filesystem changed
\* nor a write to the client failed, and whose path resolves to a readable
\* regular file not named *.py, was answered by one response of status 200
\* whose body is the file's bytes
C9_StaticFileBytes ==
    (pc = "done" /\ ~fsChanged /\ ~sinkFailed /\ Target # NoEnt /\ fs[Target] = "file"
        /\ ~EndsWith(Target, ".py") /\ Target \notin Unreadable) =>
        /\ Len(sent) = 1
        /\ sent[1].status = 200
        /\ sent[1].body = FileData(Target)
        /\ sent[1].clen = Len(FileData(Target))
        /\ sent[1].hdr /\ sent[1].bdy

C9_Witness ==
    /\ pc = "done" /\ ~fsChanged /\ ~sinkFailed
    /\ raw = "/a.txt" /\ Target = "/srv/www/a.txt" /\ fs[Target] = "file"
    /\ Len(sent) = 1 /\ sent[1].status = 200 /\ sent[1].body = "hello"

\* the index resource of the directory the request resolves to
IndexNode == ChildOf(Target, "index.html")

HasIndex == IndexNode \in Nodes /\ fs[IndexNode] = "file"

IsListing(body) == StartsWith(body, "<html><head><title>Directory: ")

\* C10: while the filesystem does not change during the request, a request
\* for a directory holding index.html as a regular file is answered from
\* that file and never by a listing, and a request for a directory without
\* one is answered by a listing and never from a file
C10_DirectoryCasesExclusive ==
    (Dispatching /\ ~fsChanged /\ Target # NoEnt /\ fs[Target] = "dir") =>
        IF HasIndex
        THEN /\ \A i \in 1..Len(acted) : acted[i] = "CaseDirectoryIndexFile"
             /\ \A i \in 1..Len(sent) :
                   /\ sent[i].via # "listing" /\ ~IsListing(sent[i].body)
                   /\ sent[i].status = 200 => sent[i].body = FileData(IndexNode)
             /\ (pc = "done" /\ ~sinkFailed) => Len(sent) = 1 /\ sent[1].status = 200
        ELSE /\ \A i \in 1..Len(acted) : acted[i] = "CaseDirectoryNoIndex"
             /\ \A i \in 1..Len(sent) :
                   /\ sent[i].via # "file"
                   /\ sent[i].status = 200 => sent[i].via = "listing" /\ IsListing(sent[i].body)
             /\ (pc = "done" /\ ~sinkFailed) => Len(sent) = 1 /\ sent[1].status = 200

C10_Witness ==
    /\ pc = "done" /\ ~fsChanged /\ ~sinkFailed
    /\ raw = "/sub" /\ HasIndex
    /\ acted = << "CaseDirectoryIndexFile" >>
    /\ Len(sent) = 1 /\ sent[1].body = "<p>sub</p>"

\* a request for a directory without index.html was answered by a listing
C10_ListingReached ==
    /\ pc = "done" /\ ~fsChanged /\ ~sinkFailed
    /\ raw = "/d" /\ ~HasIndex
    /\ acted = << "CaseDirectoryNoIndex" >>
    /\ Len(sent) = 1 /\ IsListing(sent[1].body)

\* the children of the requested directory that are there and not hidden
VisibleChildren ==
    { c \in Nodes : c # "/" /\ dirname(c) = Target /\ fs[c] # "absent"
                    /\ ~StartsWith(basename(c), ".") }

\* the list items of the listing after the parent link, if there is one
ShownItems ==
    IF items # <<>> /\ EndsWith(items[1], "\">../</a></li>") THEN Tail(items) ELSE items

\* the item shows the name as a directory: a link ending in the separator,
\* the name with the separator, and nothing after the link
ShowsDir(item, name) ==
    /\ StartsWith(item, "<li><a href=\"")
    /\ EndsWith(item, "/" \o name \o "/\">" \o name \o "/</a></li>")

\* the item shows the name as a file: a link to it followed by a size
ShowsFile(item, name) ==
    /\ StartsWith(item, "<li><a href=\"")
    /\ Contains(item, "/" \o name \o "\">" \o name \o "</a> (")
    /\ EndsWith(item, "B)</li>")

ShowsChild(item, c) ==
    IF fs[c] = "dir" THEN ShowsDir(item, basename(c)) ELSE ShowsFile(item, basename(c))

\* C11: while the filesystem does not change during the request, a listing
\* that was sent is the page made of the rendered items, and its items after
\* the parent link are one per child of the directory whose name does not
\* begin with ".", no other, in ascending order of the names by character
\* code, a directory shown with a trailing separator and no size, anything
\* else with a size
C11_ListingShowsVisibleChildren ==
    (sent # <<>> /\ sent[1].via = "listing" /\ ~fsChanged /\ Target # NoEnt) =>
        /\ sent[1].status = 200
        /\ sent[1].body = Utf8Encode(listing_page(path, JoinItems(items)))
        /\ Len(ShownItems) = Cardinality(VisibleChildren)
        /\ \A c \in VisibleChildren : \E i \in 1..Len(ShownItems) : ShowsChild(ShownItems[i], c)
        /\ \A i \in 1..Len(ShownItems) : \E c \in VisibleChildren : ShowsChild(ShownItems[i], c)
        /\ \A i, j \in 1..Len(ShownItems) : \A c, e \in VisibleChildren :
              (i < j /\ ShowsChild(ShownItems[i], c) /\ ShowsChild(ShownItems[j], e)) =>
                  StrLess(basename(c), basename(e))

C11_Witness ==
    /\ pc = "done" /\ ~fsChanged /\ ~sinkFailed
    /\ raw = "/d" /\ Target = "/srv/www/d"
    /\ Len(sent) = 1 /\ sent[1].via = "listing" /\ sent[1].bdy
    /\ Len(ShownItems) = 3
    /\ ShowsFile(ShownItems[1], "Z") /\ ShowsFile(ShownItems[2], "b.css")
    /\ ShowsDir(ShownItems[3], "e")
    /\ fs["/srv/www/d/.h"] = "file"

\* C12: every response whose headers and body were written to the connection
\* carries a Content-Length equal to the number of bytes of the body written,
\* whatever its status and whichever caller of send_content made it
C12_ContentLengthIsBodyLength ==
    \A i \in 1..Len(sent) :
        /\ sent[i].via \in { "file", "listing", "cgi", "error" }
        /\ (sent[i].hdr /\ sent[i].bdy) => sent[i].clen = Len(sent[i].body)

\* an error page naming a path with a character that takes two bytes
C12_Witness ==
    /\ pc = "done" /\ raw = "/caf%C3%A9"
    /\ Len(sent) = 1 /\ sent[1].status = 404 /\ sent[1].hdr /\ sent[1].bdy
    /\ Len(path) = 5
    /\ sent[1].clen = Len(error_page(path, NotFoundMsg(path))) + 2

\* the file whose bytes handle_file was asked to serve in this request
ServedFile == ReadTarget(acted[1], full_path)

\* C13: the content type of every response is the table's type for the
\* suffix of the request path, and that of a response carrying a file's bytes
\* is the table's type for the suffix of that file's name, the index
\* resource of a requested directory included
C13_ContentTypeBySuffix ==
    \A i \in 1..Len(sent) :
        /\ sent[i].ctype = ContentType(path)
        /\ (sent[i].via = "file" /\ acted # <<>>) => sent[i].ctype = ContentType(ServedFile)

UnitOfDigits(n) ==
    CASE n <= 1 -> "B" [] n = 2 -> "KB" [] n = 3 -> "MB" [] n = 4 -> "GB" [] OTHER -> "TB"

\* the text is a number with one decimal place
IsFixed1(t) ==
    /\ Len(t) >= 3
    /\ Char(t, Len(t) - 1) = "."
    /\ \A i \in (1..Len(t)) \ {Len(t) - 1} : Ord(Char(t, i)) >= 48 /\ Ord(Char(t, i)) <= 57

\* C15: what format_size returns for a size is a number with one decimal
\* place, a space and the unit reached by one division by 1024 for each time
\* the running value is >= 1024, four at most (B below 1024, then KB, MB, GB,
\* and TB from 1024^4 on); 500 gives "500.0 B", 2048 "2.0 KB", 1572864
\* "1.5 MB", and an exact multiple of the unit shows ".0"
C15_FormatSizeUnits ==
    size_str # "" =>
        LET unit == UnitOfDigits(Len(size))
            number == SubSeq(size_str, 1, Len(size_str) - Len(unit) - 1)
        IN  /\ EndsWith(size_str, " " \o unit)
            /\ IsFixed1(number)
            /\ (Len(size) = 1) => size_str = ToString(size[1]) \o ".0 B"
            /\ (size = << 500 >>) => size_str = "500.0 B"
            /\ (size = << 2, 0 >>) => size_str = "2.0 KB"
            /\ (size = << 1, 512, 0 >>) => size_str = "1.5 MB"
            /\ (Len(size) <= 5 /\ \A i \in 2..Len(size) : size[i] = 0) =>
                   number = ToString(size[1]) \o ".0"

\* a size of 1024^4 and more was formatted, and one just below a power of 1024
C15_Witness ==
    /\ size = << 1, 512, 0, 0, 0 >>
    /\ size_str = "1.5 TB"

\* the listing page holds a link to the parent directory
HasParentLink(body) == Contains(body, "\">../</a></li>")

\* C16: while the filesystem does not change during the request, a listing
\* that was sent holds a parent-directory link exactly when the directory
\* listed is not the document root, however the request path spells it
C16_ParentLinkIffNotRoot ==
    \A i \in 1..Len(sent) :
        (sent[i].via = "listing" /\ ~fsChanged /\ Target # NoEnt) =>
            (HasParentLink(sent[i].body) <=> Target # getcwd)

\* C16 for the request path "/" alone: the listing of the document root asked
\* for as "/" holds no parent link, and a listing of a directory beneath the
\* root holds one
C16_ParentLinkByPathString ==
    \A i \in 1..Len(sent) :
        (sent[i].via = "listing" /\ ~fsChanged /\ Target # NoEnt) =>
            /\ path = "/" => ~HasParentLink(sent[i].body)
            /\ Target # getcwd => HasParentLink(sent[i].body)

\* C17: once a byte of a response has been written, the decision it carries
\* is the last one of the request: no further response is made after it, and
\* a request whose status line said 200 has not failed
C17_NoBytesBeforeDecision ==
    \A i \in 1..Len(sent) :
        sent[i].hdr =>
            /\ i = Len(sent)
            /\ sent[i].status = 200 => failure.kind = "none" /\ ~crashed

\* C17, the order of the work: from the first call of send_content to the
\* end of the request nothing is read from the filesystem, no entry is
\* rendered and the child process neither runs nor writes
C17_WorkEndsBeforeSend ==
    [][(sent # <<>> /\ pc \notin {"idle", "done"}) =>
          /\ UNCHANGED <<probed, entries, items, size, size_str, child, cgiOut, returncode, fs>>
          /\ child # "running"]_vars

\* C17 while every write succeeds: the response whose bytes are written is
\* the only one of the request
C17_OneDecisionWhileWritesSucceed ==
    ~sinkFailed => \A i \in 1..Len(sent) : sent[i].hdr => Len(sent) = 1

\* the case selected for the request reads a file, or lists the directory
FileCase == caseIdx \in 1..Len(cases) /\ cases[caseIdx] \in { "CaseExistingFile", "CaseDirectoryIndexFile" }
ListCase == caseIdx \in 1..Len(cases) /\ cases[caseIdx] = "CaseDirectoryNoIndex"

\* the last call of send_content in the next state is an error page
NextIsError == sent' # <<>> /\ sent'[Len(sent')].status = 404 /\ sent'[Len(sent')].via = "error"

\* C18, the requests as a whole: a request that read a file or listed a
\* directory while the filesystem changed, and whose writes succeeded, ends
\* with one response, a page or one 404 saying what could not be read or
\* listed, and not with an exception leaving do_GET; a failed read or
\* listing is never answered by a listing or a file; a listing that is sent
\* has rendered every entry enumerated
C18_RaceOutcome ==
    /\ (pc = "done" /\ fsChanged /\ ~sinkFailed /\ acted # <<>>
           /\ acted[1] \in { "CaseExistingFile", "CaseDirectoryIndexFile", "CaseDirectoryNoIndex" }) =>
          /\ Len(sent) = 1 /\ ~crashed /\ sent[1].hdr /\ sent[1].bdy
          /\ failure.kind = "none" => sent[1].status = 200
          /\ failure.kind # "none" =>
                /\ sent[1].status = 404
                /\ \/ failure.kind = "ReadFailure" /\ Contains(sent[1].body, "' cannot be read: ")
                   \/ failure.kind = "ListingFailure" /\ Contains(sent[1].body, "' cannot be listed: ")
    /\ failure.kind \in { "ReadFailure", "ListingFailure" } =>
          \A i \in 1..Len(sent) : sent[i].status = 404 /\ sent[i].via = "error" /\ ~IsListing(sent[i].body)
    /\ \A i \in 1..Len(sent) : sent[i].via = "listing" => entries = <<>>

\* C18, the steps: when the selected case acts on a file that is gone, or
\* enumerates a directory that is gone, or comes to a listed entry that is
\* gone, the step reports an error page (read error, listing error) and
\* renders nothing for the entry
C18_RaceSteps ==
    /\ (pc = "act" /\ FileCase /\ acted' # acted /\ ~exists(fs, ReadTarget(cases[caseIdx], full_path))) =>
          failure'.kind = "ReadFailure" /\ NextIsError /\ Len(sent') = 1
    /\ (pc = "act" /\ ListCase /\ acted' # acted /\ ~exists(fs, full_path)) =>
          failure'.kind = "ListingFailure" /\ NextIsError /\ Len(sent') = 1
    /\ (pc = "entry" /\ entries # <<>> /\ fs' = fs /\ ~StartsWith(Head(entries), ".")
           /\ ~exists(fs, join(full_path, Head(entries)))) =>
          failure'.kind = "ListingFailure" /\ NextIsError /\ Len(sent') = 1 /\ items' = items

\* C18: a change of the filesystem between a case's test and its action (the
\* directory gone before it is enumerated, a listed child gone before its
\* size is read, the file gone before it is opened) ends in one reported 404
\* (listing error or read error), never in an unhandled exception, a partial
\* listing or a listing showing the entry that is gone
C18_RacesAreReported == []C18_RaceOutcome /\ [][C18_RaceSteps]_vars

\* a listed child was removed before its size was read
C18_Witness ==
    /\ pc = "done" /\ fsChanged /\ ~sinkFailed
    /\ acted = << "CaseDirectoryNoIndex" >>
    /\ fs["/srv/www/d"] = "dir" /\ fs["/srv/www/d/b.css"] = "absent"
    /\ failure.kind = "ListingFailure" /\ Contains(failure.cause, "/srv/www/d/b.css")
    /\ Len(items) = 2
    /\ Len(sent) = 1 /\ sent[1].status = 404 /\ sent[1].bdy

\* C19: no error page holds the absolute path of the document root
C19_ErrorPagesHideRoot ==
    \A i \in 1..Len(sent) : sent[i].status = 404 => ~Contains(sent[i].body, getcwd)

\* C19 for the failures reported by the request path alone: the pages for a
\* resource not found and for an unknown object do not hold the root's path
C19_NotFoundPagesHideRoot ==
    (failure.kind \in { "NotFound", "UnclassifiedRequest" } /\ ~sinkFailed) =>
        \A i \in 1..Len(sent) : ~Contains(sent[i].body, getcwd)

\* C20: every response of status 404 has the content type text/html
C20_ErrorPagesAreHtml ==
    \A i \in 1..Len(sent) : sent[i].status = 404 => sent[i].ctype = "text/html"

====
